---- MODULE Spec2Model ----
(***************************************************************************)
(* Regression analysis of reports/generate-report.py.                      *)
(*                                                                         *)
(* The state is the two snapshot directories (data/baseline, data/latest)  *)
(* and the result of the most recent invocation of the command line: the   *)
(* command, what its function returned (or the exception it raised) and    *)
(* the document it wrote.  The field parsers of the CSV converter are      *)
(* followed on one field (field, value, parsed), the converters on one     *)
(* configuration and one set of CSV reports (groups_config, artifacts,     *)
(* created).                                                               *)
(*                                                                         *)
(* Numbers.  mean_us values are whole microseconds; the values of Means    *)
(* are chosen so that exact arithmetic and IEEE doubles agree on every     *)
(* comparison and on every rounding the code performs on them.  A          *)
(* percentage is kept exact as a fraction [num, den] with den > 0.         *)
(* An optional value (Python None or a value) is a sequence of length 0    *)
(* or 1.                                                                   *)
(***************************************************************************)
EXTENDS Integers, Sequences, FiniteSets, TLC

VARIABLES baselineDir, latestDir, command, outcome, html,
          field, value, parsed,
          groups_config, artifacts, created

vars == <<baselineDir, latestDir, command, outcome, html,
          field, value, parsed, groups_config, artifacts, created>>

\* the state of the report commands, of the field parsers and of the converters
reportVars == <<baselineDir, latestDir, command, outcome, html>>

parseVars == <<field, value, parsed>>

convertVars == <<groups_config, artifacts, created>>

-----------------------------------------------------------------------------
(* Python values *)

None == <<>>

Some(v) == <<v>>

Abs(x) == IF x < 0 THEN -x ELSE x

\* round(n / d) for d > 0, as the format specs ".1f" / ".2f" round a quotient
RoundDiv(n, d) ==
  IF n >= 0 THEN (2 * n + d) \div (2 * d) ELSE -((2 * (-n) + d) \div (2 * d))

\* Python dict: insertion-ordered sequence of [key, value]
DictHas(d, k) == \E i \in 1..Len(d) : d[i].key = k

DictGet(d, k) ==
  IF DictHas(d, k)
  THEN Some(d[CHOOSE i \in 1..Len(d) : d[i].key = k].value)
  ELSE None

DictSet(d, k, v) ==
  IF DictHas(d, k)
  THEN [i \in 1..Len(d) |-> IF d[i].key = k THEN [key |-> k, value |-> v] ELSE d[i]]
  ELSE Append(d, [key |-> k, value |-> v])

\* {m["name"]: m for m in methods}
RECURSIVE by_name(_)
by_name(methods) ==
  IF methods = <<>> THEN <<>>
  ELSE LET n == Len(methods)
       IN DictSet(by_name(SubSeq(methods, 1, n - 1)), methods[n].name, methods[n])

\* {g["id"]: g for g in comparisonGroups}
RECURSIVE by_id(_)
by_id(groups) ==
  IF groups = <<>> THEN <<>>
  ELSE LET n == Len(groups)
       IN DictSet(by_id(SubSeq(groups, 1, n - 1)), groups[n].id, groups[n])

\* A call either returns a value or raises
Return(v) == [exc |-> "", value |-> v]

Raise(e) == [exc |-> e, value |-> None]

Raised(r) == r.exc # ""

\* the first exception raised while the elements of rs were evaluated in order
FirstRaise(rs) ==
  rs[CHOOSE i \in 1..Len(rs) : Raised(rs[i]) /\ \A j \in 1..(i - 1) : ~Raised(rs[j])]

AnyRaised(rs) == \E i \in 1..Len(rs) : Raised(rs[i])

Values(rs) == [i \in 1..Len(rs) |-> rs[i].value]

-----------------------------------------------------------------------------
(* compute_ratio: (ratio_str, css_class), or ZeroDivisionError from        *)
(* 1.0 / ratio when the method's mean is 0.                                *)
(* ratio_str is [x, word]: x the displayed number in hundredths (None when *)
(* the text has no number), word the rest of the text.  Means are never    *)
(* negative, so ratio < 1.0 is m < b.                                      *)

RatioStr(x, word) == [x |-> x, word |-> word]

compute_ratio(method_mean, baseline_mean) ==
  IF method_mean = None \/ baseline_mean = None \/ baseline_mean = Some(0)
  THEN Return(<<RatioStr(None, "-"), "neutral">>)
  ELSE LET m == method_mean[1]
           b == baseline_mean[1]
       IN IF 1000 * Abs(m - b) < 15 * b
          THEN Return(<<RatioStr(Some(100), "x"), "neutral">>)
          ELSE IF m < b
               THEN IF m = 0
                    THEN Raise("ZeroDivisionError")
                    ELSE Return(<<RatioStr(Some(RoundDiv(100 * b, m)), "x faster"), "faster">>)
               ELSE Return(<<RatioStr(Some(RoundDiv(100 * m, b)), "x slower"), "slower">>)

\* the loop that finds the reference mean: first method named `name`
first_mean_named(methods, name) ==
  IF \E i \in 1..Len(methods) : methods[i].name = name
  THEN LET i == CHOOSE j \in 1..Len(methods) :
                  /\ methods[j].name = name
                  /\ \A k \in 1..(j - 1) : methods[k].name # name
       IN methods[i].mean_us
  ELSE None

-----------------------------------------------------------------------------
(* html_data_table_public: one row per method of the group.  compute_ratio *)
(* is called for every method, the flagged ones included.                  *)

public_row(m, baseline_mean) ==
  LET r == compute_ratio(m.mean_us, baseline_mean)
  IN IF Raised(r) THEN r
     ELSE Return([name |-> m.name,
                  label |-> m.label,
                  mean |-> m.mean_us,
                  ratio_str |-> IF m.isBaseline THEN RatioStr(None, "baseline") ELSE r.value[1],
                  ratio_class |-> IF m.isBaseline THEN "neutral" ELSE r.value[2],
                  tr_class |-> IF m.isBaseline THEN "baseline" ELSE ""])

html_data_table_public(group) ==
  LET baseline_mean == first_mean_named(group.methods, group.baseline)
      rows == [i \in 1..Len(group.methods) |-> public_row(group.methods[i], baseline_mean)]
  IN IF AnyRaised(rows) THEN FirstRaise(rows)
     ELSE Return([kind |-> "public", rows |-> Values(rows)])

-----------------------------------------------------------------------------
(* html_data_table_regression *)

\* the loop that builds all_names: first occurrences, latest methods first
RECURSIVE unique_names(_, _)
unique_names(methods, all_names) ==
  IF methods = <<>> THEN all_names
  ELSE unique_names(Tail(methods),
                    IF \E i \in 1..Len(all_names) : all_names[i] = Head(methods).name
                    THEN all_names
                    ELSE Append(all_names, Head(methods).name))

\* variant: the baseline group's names first
merged_names_baseline_first(group_baseline, group_latest) ==
  unique_names(group_baseline.methods \o group_latest.methods, <<>>)

merged_names(group_baseline, group_latest) ==
  unique_names(group_latest.methods \o group_baseline.methods, <<>>)

\* bl.get("mean_us") where bl = bl_by_name.get(name, {})
mean_of(by, name) ==
  IF DictGet(by, name) = None THEN None ELSE DictGet(by, name)[1].mean_us

\* pct of the table: (delta / bl_mean) * 100 if bl_mean != 0 else 0
Pct(n, d) == [num |-> n, den |-> d]

table_pct(lt_mean, bl_mean) ==
  IF bl_mean # 0 THEN Pct(100 * (lt_mean - bl_mean), bl_mean) ELSE Pct(0, 1)

\* p < a / b and p > a / b, for b > 0
PctLess(p, a, b) == p.num * b < a * p.den

PctGreater(p, a, b) == p.num * b > a * p.den

\* the colour thresholds of the table's temporal columns: 1.5 = 3 / 2
delta_class_of(pct) ==
  IF PctLess(pct, -3, 2) THEN "delta-positive"
  ELSE IF PctGreater(pct, 3, 2) THEN "delta-negative"
  ELSE "neutral"

\* delta_str is the delta (whole microseconds, so "+.1f" loses nothing),
\* pct_str the percentage rounded to tenths; None stands for the dash
regression_row(name, bl_by_name, lt_by_name, group_baseline_name, group_baseline_mean) ==
  LET bl == DictGet(bl_by_name, name)
      lt == DictGet(lt_by_name, name)
      label == IF lt # None THEN lt[1].label ELSE IF bl # None THEN bl[1].label ELSE name
      bl_mean == mean_of(bl_by_name, name)
      lt_mean == mean_of(lt_by_name, name)
      is_group_baseline == (name = group_baseline_name)
      both == bl_mean # None /\ lt_mean # None
      pct == table_pct(lt_mean[1], bl_mean[1])
      r == IF is_group_baseline
           THEN Return(<<RatioStr(None, "baseline"), "neutral">>)
           ELSE compute_ratio(lt_mean, group_baseline_mean)
  IN IF Raised(r) THEN r
     ELSE Return([name |-> name,
                  label |-> label,
                  bl_mean |-> bl_mean,
                  lt_mean |-> lt_mean,
                  delta_class |-> IF both THEN delta_class_of(pct) ELSE "neutral",
                  delta_str |-> IF both THEN Some(lt_mean[1] - bl_mean[1]) ELSE None,
                  pct_str |-> IF both THEN Some(RoundDiv(10 * pct.num, pct.den)) ELSE None,
                  ratio_str |-> r.value[1],
                  ratio_class |-> r.value[2],
                  tr_class |-> IF is_group_baseline THEN "baseline" ELSE ""])

\* variant: the reference mean looked up in the historical baseline group
html_data_table_regression_historical(group_baseline, group_latest) ==
  LET bl_by_name == by_name(group_baseline.methods)
      lt_by_name == by_name(group_latest.methods)
      all_names == merged_names(group_baseline, group_latest)
      group_baseline_name == group_latest.baseline
      group_baseline_mean == first_mean_named(group_baseline.methods, group_baseline_name)
      rows == [i \in 1..Len(all_names) |->
                 regression_row(all_names[i], bl_by_name, lt_by_name,
                                group_baseline_name, group_baseline_mean)]
  IN IF AnyRaised(rows) THEN FirstRaise(rows)
     ELSE Return([kind |-> "regression", rows |-> Values(rows)])

html_data_table_regression(group_baseline, group_latest) ==
  LET bl_by_name == by_name(group_baseline.methods)
      lt_by_name == by_name(group_latest.methods)
      all_names == merged_names(group_baseline, group_latest)
      group_baseline_name == group_latest.baseline
      group_baseline_mean == first_mean_named(group_latest.methods, group_baseline_name)
      rows == [i \in 1..Len(all_names) |->
                 regression_row(all_names[i], bl_by_name, lt_by_name,
                                group_baseline_name, group_baseline_mean)]
  IN IF AnyRaised(rows) THEN FirstRaise(rows)
     ELSE Return([kind |-> "regression", rows |-> Values(rows)])

-----------------------------------------------------------------------------
(* load_data_files.  A directory is a function from file names to          *)
(* documents; file names are numbers, in the order sorted() gives them.    *)
(* A file that is not JSON or has no metadata.benchmarkClass is a record   *)
(* with the exception its reading raises; a document may also lack the     *)
(* key comparisonGroups.                                                   *)

Unparseable == [malformed |-> "JSONDecodeError"]

NoClassName == [malformed |-> "KeyError"]

NoGroups(cls) == [benchmarkClass |-> cls]

IsMalformed(doc) == "malformed" \in DOMAIN doc

HasGroups(doc) == "comparisonGroups" \in DOMAIN doc

\* sorted(directory.glob("*.json"))
RECURSIVE sorted(_)
sorted(files) ==
  IF files = {} THEN <<>>
  ELSE LET f == CHOOSE g \in files : \A h \in files : g <= h
       IN <<f>> \o sorted(files \ {f})

\* the loop over the files, in the order given: a malformed file is skipped
\* with a warning
RECURSIVE load_files(_, _, _)
load_files(directory, files, result) ==
  IF files = <<>> THEN result
  ELSE LET data == directory[Head(files)]
       IN load_files(directory, Tail(files),
                     IF IsMalformed(data) THEN result
                     ELSE DictSet(result, data.benchmarkClass, data))

load_data_files(directory) == load_files(directory, sorted(DOMAIN directory), <<>>)

-----------------------------------------------------------------------------
(* generate_regression_report: the summary loop *)

no_summary == [exc |-> "", regressions |-> <<>>, improvements |-> <<>>]

\* variant: the 5 percent bounds taken as inclusive
RECURSIVE summary_methods_inclusive(_, _, _)
summary_methods_inclusive(methods, bl_by_name, acc) ==
  IF methods = <<>> \/ acc.exc # "" THEN acc
  ELSE LET m == Head(methods)
           bl_m == DictGet(bl_by_name, m.name)
           rest == Tail(methods)
       IN IF bl_m = None \/ bl_m[1].mean_us = None \/ m.mean_us = None
          THEN summary_methods_inclusive(rest, bl_by_name, acc)
          ELSE IF bl_m[1].mean_us[1] = 0
          THEN [acc EXCEPT !.exc = "ZeroDivisionError"]
          ELSE LET pct == Pct(100 * (m.mean_us[1] - bl_m[1].mean_us[1]), bl_m[1].mean_us[1])
               IN IF ~PctLess(pct, 5, 1)
                  THEN summary_methods_inclusive(rest, bl_by_name,
                         [acc EXCEPT !.regressions = Append(@, <<m.label, pct>>)])
                  ELSE IF ~PctGreater(pct, -5, 1)
                  THEN summary_methods_inclusive(rest, bl_by_name,
                         [acc EXCEPT !.improvements = Append(@, <<m.label, pct>>)])
                  ELSE summary_methods_inclusive(rest, bl_by_name, acc)

\* for m in lt_group["methods"]
RECURSIVE summary_methods(_, _, _)
summary_methods(methods, bl_by_name, acc) ==
  IF methods = <<>> \/ acc.exc # "" THEN acc
  ELSE LET m == Head(methods)
           bl_m == DictGet(bl_by_name, m.name)
           rest == Tail(methods)
       IN IF bl_m = None \/ bl_m[1].mean_us = None \/ m.mean_us = None
          THEN summary_methods(rest, bl_by_name, acc)
          ELSE IF bl_m[1].mean_us[1] = 0
          THEN [acc EXCEPT !.exc = "ZeroDivisionError"]
          ELSE LET pct == Pct(100 * (m.mean_us[1] - bl_m[1].mean_us[1]), bl_m[1].mean_us[1])
               IN IF PctGreater(pct, 5, 1)
                  THEN summary_methods(rest, bl_by_name,
                         [acc EXCEPT !.regressions = Append(@, <<m.label, pct>>)])
                  ELSE IF PctLess(pct, -5, 1)
                  THEN summary_methods(rest, bl_by_name,
                         [acc EXCEPT !.improvements = Append(@, <<m.label, pct>>)])
                  ELSE summary_methods(rest, bl_by_name, acc)

\* for lt_group in lt_data["comparisonGroups"]
RECURSIVE summary_groups(_, _, _)
summary_groups(groups, bl_groups, acc) ==
  IF groups = <<>> \/ acc.exc # "" THEN acc
  ELSE LET bl_group == DictGet(bl_groups, Head(groups).id)
       IN IF bl_group = None
          THEN summary_groups(Tail(groups), bl_groups, acc)
          ELSE summary_groups(Tail(groups), bl_groups,
                 summary_methods(Head(groups).methods, by_name(bl_group[1].methods), acc))

\* for class_name, lt_data in latest_data.items()
RECURSIVE summary_classes(_, _, _)
summary_classes(latest_data, baseline_data, acc) ==
  IF latest_data = <<>> \/ acc.exc # "" THEN acc
  ELSE LET bl_data == DictGet(baseline_data, Head(latest_data).key)
       IN IF bl_data = None
          THEN summary_classes(Tail(latest_data), baseline_data, acc)
          ELSE IF ~HasGroups(bl_data[1]) \/ ~HasGroups(Head(latest_data).value)
          THEN [acc EXCEPT !.exc = "KeyError"]
          ELSE summary_classes(Tail(latest_data), baseline_data,
                 summary_groups(Head(latest_data).value.comparisonGroups,
                                by_id(bl_data[1].comparisonGroups), acc))

\* ", ".join(f"{name} ({pct:+.1f}%)" ...): the label and the rounded tenths
summary_entries(list) ==
  [i \in 1..Len(list) |-> <<list[i][1], RoundDiv(10 * list[i][2].num, list[i][2].den)>>]

\* the banners written when has_baseline
summary_banners(regressions, improvements) ==
  (IF regressions # <<>>
   THEN <<[class |-> "summary-fail", entries |-> summary_entries(regressions)]>>
   ELSE <<[class |-> "summary-pass", entries |-> <<>>]>>)
  \o
  (IF improvements # <<>>
   THEN <<[class |-> "summary-pass", entries |-> summary_entries(improvements)]>>
   ELSE <<>>)

(* generate_regression_report: the per-class comparison *)

group_section(lt_group, bl_groups) ==
  LET bl_group == DictGet(bl_groups, lt_group.id)
      table == IF bl_group # None
               THEN html_data_table_regression(bl_group[1], lt_group)
               ELSE html_data_table_public(lt_group)
  IN IF Raised(table) THEN table
     ELSE Return([id |-> lt_group.id, table |-> table.value])

class_section(class_name, lt_data, baseline_data) ==
  LET bl_data == DictGet(baseline_data, class_name)
      bl_groups == IF bl_data # None THEN by_id(bl_data[1].comparisonGroups) ELSE <<>>
      groups == [i \in 1..Len(lt_data.comparisonGroups) |->
                   group_section(lt_data.comparisonGroups[i], bl_groups)]
  IN IF (bl_data # None /\ ~HasGroups(bl_data[1])) \/ ~HasGroups(lt_data)
     THEN Raise("KeyError")
     ELSE IF AnyRaised(groups) THEN FirstRaise(groups)
     ELSE Return([class_name |-> class_name, groups |-> Values(groups)])

\* returns out_path with the document written, None with nothing written,
\* or raises with nothing written
generate_regression_report(baseline_dir, latest_dir) ==
  LET baseline_data == load_data_files(baseline_dir)
      latest_data == load_data_files(latest_dir)
      has_baseline == baseline_data # <<>>
      summary == summary_classes(latest_data, baseline_data, no_summary)
      classes == [i \in 1..Len(latest_data) |->
                    class_section(latest_data[i].key, latest_data[i].value, baseline_data)]
  IN IF latest_data = <<>> THEN [outcome |-> "None", html |-> None]
     ELSE IF summary.exc # "" THEN [outcome |-> summary.exc, html |-> None]
     ELSE IF AnyRaised(classes) THEN [outcome |-> FirstRaise(classes).exc, html |-> None]
     ELSE [outcome |-> "out_path",
           html |-> Some([stale_banner |-> ~has_baseline,
                          summary |-> IF has_baseline
                                      THEN summary_banners(summary.regressions,
                                                           summary.improvements)
                                      ELSE <<>>,
                          classes |-> Values(classes)])]

(* generate_public_report, on the baseline directory *)

public_class_section(class_name, data) ==
  LET groups == [i \in 1..Len(data.comparisonGroups) |->
                   LET t == html_data_table_public(data.comparisonGroups[i])
                   IN IF Raised(t) THEN t
                      ELSE Return([id |-> data.comparisonGroups[i].id, table |-> t.value])]
  IN IF ~HasGroups(data) THEN Raise("KeyError")
     ELSE IF AnyRaised(groups) THEN FirstRaise(groups)
     ELSE Return([class_name |-> class_name, groups |-> Values(groups)])

generate_public_report(data_dir) ==
  LET data_files == load_data_files(data_dir)
      classes == [i \in 1..Len(data_files) |->
                    public_class_section(data_files[i].key, data_files[i].value)]
  IN IF data_files = <<>> THEN [outcome |-> "None", html |-> None]
     ELSE IF AnyRaised(classes) THEN [outcome |-> FirstRaise(classes).exc, html |-> None]
     ELSE [outcome |-> "out_path",
           html |-> Some([stale_banner |-> FALSE, summary |-> <<>>,
                          classes |-> Values(classes)])]

(* promote_baseline: every file of latest is written under the same name   *)
(* into baseline; nothing is removed                                      *)
promote_baseline(baseline_dir, latest_dir) ==
  IF DOMAIN latest_dir = {} THEN baseline_dir
  ELSE [f \in DOMAIN baseline_dir \cup DOMAIN latest_dir |->
          IF f \in DOMAIN latest_dir THEN latest_dir[f] ELSE baseline_dir[f]]

-----------------------------------------------------------------------------
(* Strings and floats of the CSV converter.                                *)
(*                                                                         *)
(* A string is the sequence of its characters, each a one-character        *)
(* string; the micro sign and the Greek mu are written "U+00B5" and        *)
(* "U+03BC".  The characters are taken from digits, ".", ",", " ", the     *)
(* letters of the unit names and of "NA", "N/A", "inf", "nan", and "x"     *)
(* for any other character; signs, exponents and underscores do not occur. *)
(* A float is kept exact as n * 10^e (Dec), or is inf or nan; the inputs   *)
(* are chosen so that no rounding the code performs falls on a tie, where  *)
(* the result would depend on the binary representation.                   *)

DigitChars == <<"0", "1", "2", "3", "4", "5", "6", "7", "8", "9">>

IsDigit(c) == \E i \in 1..10 : DigitChars[i] = c

DigitVal(c) == (CHOOSE i \in 1..10 : DigitChars[i] = c) - 1

RECURSIVE Pow10(_)
Pow10(k) == IF k = 0 THEN 1 ELSE 10 * Pow10(k - 1)

\* the integer written by a sequence of digits (0 for the empty sequence)
RECURSIVE digits_value(_)
digits_value(ds) ==
  IF ds = <<>> THEN 0
  ELSE 10 * digits_value(SubSeq(ds, 1, Len(ds) - 1)) + DigitVal(ds[Len(ds)])

\* n * 10^e with no trailing zero in n; zero is Dec(0, 0)
RECURSIVE Dec(_, _)
Dec(n, e) ==
  IF n = 0 THEN [class |-> "finite", n |-> 0, e |-> 0]
  ELSE IF n % 10 = 0 THEN Dec(n \div 10, e + 1)
  ELSE [class |-> "finite", n |-> n, e |-> e]

Inf == [class |-> "inf", n |-> 0, e |-> 0]

NaN == [class |-> "nan", n |-> 0, e |-> 0]

\* n / 10^k rounded to an integer, for n >= 0 and k >= 1
RoundPow10(n, k) == (n + 5 * Pow10(k - 1)) \div Pow10(k)

\* x * 10^k and x / 10^k: the multiplications and the division of parse_us
Scale(x, k) == IF x.class = "finite" THEN Dec(x.n, x.e + k) ELSE x

\* round(x, ndigits)
round(x, ndigits) ==
  IF x.class # "finite" \/ x.e >= -ndigits THEN x
  ELSE Dec(RoundPow10(x.n, -ndigits - x.e), -ndigits)

\* int(x): truncation, OverflowError for inf and ValueError for nan
int(x) ==
  IF x.class = "inf" THEN Raise("OverflowError")
  ELSE IF x.class = "nan" THEN Raise("ValueError")
  ELSE IF x.e >= 0 THEN Return(x.n * Pow10(x.e))
  ELSE Return(x.n \div Pow10(-x.e))

\* int(x * 1024)
int_times_1024(x) ==
  IF x.class = "finite" THEN int(Dec(x.n * 1024, x.e)) ELSE int(x)

\* str.replace(old, new)
RECURSIVE replace(_, _, _)
replace(s, old, new) ==
  IF Len(s) < Len(old) THEN s
  ELSE IF SubSeq(s, 1, Len(old)) = old
       THEN new \o replace(SubSeq(s, Len(old) + 1, Len(s)), old, new)
       ELSE <<Head(s)>> \o replace(Tail(s), old, new)

\* str.strip()
RECURSIVE strip(_)
strip(s) ==
  IF s # <<>> /\ Head(s) = " " THEN strip(Tail(s))
  ELSE IF s # <<>> /\ s[Len(s)] = " " THEN strip(SubSeq(s, 1, Len(s) - 1))
  ELSE s

\* str.endswith(suffix)
endswith(s, suffix) ==
  Len(s) >= Len(suffix) /\ SubSeq(s, Len(s) - Len(suffix) + 1, Len(s)) = suffix

\* s[:-k]
drop_last(s, k) == SubSeq(s, 1, Len(s) - k)

\* float(s): the number a string writes, or ValueError
float(s) ==
  LET t == strip(s)
      dots == {i \in 1..Len(t) : t[i] = "."}
      point == IF dots = {} THEN Len(t) + 1 ELSE CHOOSE i \in dots : TRUE
      whole == SubSeq(t, 1, point - 1)
      frac == SubSeq(t, point + 1, Len(t))
  IN IF t = <<"i", "n", "f">> THEN Return(Inf)
     ELSE IF t = <<"n", "a", "n">> THEN Return(NaN)
     ELSE IF /\ Cardinality(dots) <= 1
             /\ \A i \in 1..Len(t) : i \notin dots => IsDigit(t[i])
             /\ Len(whole) + Len(frac) > 0
          THEN Return(Dec(digits_value(whole \o frac), -Len(frac)))
          ELSE Raise("ValueError")

\* variant: the units matched without the separating space, seconds first
parse_us_suffixes_bare == << [suffix |-> <<"s">>, exp |-> 6],
                             [suffix |-> <<"u", "s">>, exp |-> 0],
                             [suffix |-> <<"n", "s">>, exp |-> -3],
                             [suffix |-> <<"m", "s">>, exp |-> 3] >>

\* the loop over [" us", " ns", " ms", " s"]; exps are the powers of ten of
\* the factors applied to val
parse_us_suffixes == << [suffix |-> <<" ", "u", "s">>, exp |-> 0],
                        [suffix |-> <<" ", "n", "s">>, exp |-> -3],
                        [suffix |-> <<" ", "m", "s">>, exp |-> 3],
                        [suffix |-> <<" ", "s">>, exp |-> 6] >>

parse_us(s0) ==
  IF s0 = <<>> \/ s0 = <<"N", "A">> \/ s0 = <<"N", "/", "A">> THEN Return(None)
  ELSE LET s1 == strip(replace(s0, <<",">>, <<>>))
           s == replace(replace(s1, <<"U+00B5", "s">>, <<"u", "s">>),
                        <<"U+03BC", "s">>, <<"u", "s">>)
           matching == {i \in 1..Len(parse_us_suffixes) :
                          endswith(s, parse_us_suffixes[i].suffix)}
       IN IF matching # {}
          THEN LET u == parse_us_suffixes[CHOOSE i \in matching : \A j \in matching : i <= j]
                   val == float(drop_last(s, Len(u.suffix)))
               IN IF Raised(val) THEN val
                  ELSE Return(Some(round(Scale(val.value, u.exp), 3)))
          ELSE LET val == float(s)
               IN IF Raised(val) THEN Return(None)
                  ELSE Return(Some(round(val.value, 3)))

parse_bytes(s0) ==
  IF s0 = <<>> \/ s0 = <<"-">> \/ s0 = <<"N", "A">> THEN Return(0)
  ELSE LET s == strip(s0)
       IN IF endswith(s, <<" ", "B">>)
          THEN LET val == float(drop_last(s, 2))
               IN IF Raised(val) THEN val ELSE int(val.value)
          ELSE IF endswith(s, <<" ", "K", "B">>)
          THEN LET val == float(drop_last(s, 3))
               IN IF Raised(val) THEN val ELSE int_times_1024(val.value)
          ELSE LET val == float(s)
                   i == IF Raised(val) THEN val ELSE int(val.value)
               IN IF i.exc = "ValueError" THEN Return(0) ELSE i

\* the "gbPerSec" entry of methods_data
gbPerSec(gb_s_str) ==
  IF gb_s_str # <<>> /\ gb_s_str \notin {<<"N", "A">>, <<"N", "/", "A">>}
  THEN LET val == float(gb_s_str)
       IN IF Raised(val) THEN val ELSE Return(Some(round(val.value, 2)))
  ELSE Return(None)

\* the digits of a natural number
RECURSIVE int_digits(_)
int_digits(n) ==
  IF n < 10 THEN <<DigitChars[n + 1]>>
  ELSE int_digits(n \div 10) \o <<DigitChars[(n % 10) + 1]>>

\* the "," option of the format spec: groups of three digits
RECURSIVE thousands(_)
thousands(ds) ==
  IF Len(ds) <= 3 THEN ds
  ELSE thousands(SubSeq(ds, 1, Len(ds) - 3)) \o <<",">> \o SubSeq(ds, Len(ds) - 2, Len(ds))

\* f"{val:,.1f} <micro sign>s", an em dash for None
fmt_us(val) ==
  IF val = None THEN <<"U+2014">>
  ELSE LET x == val[1]
           tenths == IF x.e >= -1 THEN x.n * Pow10(x.e + 1)
                     ELSE RoundPow10(x.n, -1 - x.e)
       IN IF x.class # "finite"
          THEN (IF x.class = "inf" THEN <<"i", "n", "f">> ELSE <<"n", "a", "n">>)
               \o <<" ", "U+00B5", "s">>
          ELSE thousands(int_digits(tenths \div 10))
               \o <<".", DigitChars[(tenths % 10) + 1]>> \o <<" ", "U+00B5", "s">>

-----------------------------------------------------------------------------
(* The converters: convert_bdn_csv and regenerate-data.py.                 *)
(*                                                                         *)
(* groups_config is the list benchmarkClasses of benchmark-groups.json,    *)
(* artifacts the dict from class name to the rows of the class's CSV       *)
(* report (no entry: no CSV file).  The file of a class is named after the *)
(* class, the CPU and the OS; with one CPU and OS the files sort as the    *)
(* classes do.  Measurements written by the converters are Dec numbers.    *)

file_of(class_name) == IF class_name = "c1" THEN 1 ELSE 2

\* the fields of a row that the converter reads
Row(name, mean_str, error_str, stddev_str, allocated_str, gb_s_str) ==
  [Method |-> name, Mean |-> mean_str, Error |-> error_str, StdDev |-> stddev_str,
   Allocated |-> allocated_str, GBs |-> gb_s_str]

\* the dict literal of methods_data[name] = {...}, from its five parsed
\* values in the order they are evaluated
methods_data_entry(parts) ==
  IF AnyRaised(parts) THEN FirstRaise(parts)
  ELSE Return([mean_us |-> parts[1].value, error_us |-> parts[2].value,
               stddev_us |-> parts[3].value, gbPerSec |-> parts[4].value,
               allocated |-> parts[5].value])

\* the entry of methods_data made from a row
row_data(row) ==
  methods_data_entry(<<parse_us(row.Mean), parse_us(row.Error), parse_us(row.StdDev),
                       gbPerSec(row.GBs), parse_bytes(row.Allocated)>>)

\* methods_data[name] = data, or the exception raised while making data
store_row(methods_data, name, data) ==
  IF Raised(data) THEN data ELSE Return(DictSet(methods_data, name, data.value))

\* for row in reader: methods_data[name] = {...}, rows without a name skipped
RECURSIVE read_rows(_, _)
read_rows(rows, methods_data) ==
  IF rows = <<>> \/ Raised(methods_data) THEN methods_data
  ELSE IF Head(rows).Method = "" THEN read_rows(Tail(rows), methods_data)
  ELSE read_rows(Tail(rows),
                 store_row(methods_data.value, Head(rows).Method, row_data(Head(rows))))

\* the all-absent entry that data.get(...) gives for data = {}
no_data == [mean_us |-> None, error_us |-> None, stddev_us |-> None,
            gbPerSec |-> None, allocated |-> 0]

method_record(method_def, baseline_name, methods_data) ==
  LET found == DictGet(methods_data, method_def.name)
      data == IF found = None THEN no_data ELSE found[1]
  IN [name |-> method_def.name, label |-> method_def.label,
      isBaseline |-> (method_def.name = baseline_name),
      mean_us |-> data.mean_us, error_us |-> data.error_us,
      stddev_us |-> data.stddev_us, gbPerSec |-> data.gbPerSec,
      allocated |-> data.allocated]

\* variant: a method without a row is left out
RECURSIVE group_methods_measured(_, _, _)
group_methods_measured(method_defs, baseline_name, methods_data) ==
  IF method_defs = <<>> THEN <<>>
  ELSE (IF DictHas(methods_data, Head(method_defs).name)
        THEN <<method_record(Head(method_defs), baseline_name, methods_data)>>
        ELSE <<>>)
       \o group_methods_measured(Tail(method_defs), baseline_name, methods_data)

\* for method_def in group["methods"]: group_methods.append({...})
group_methods(method_defs, baseline_name, methods_data) ==
  [i \in 1..Len(method_defs) |-> method_record(method_defs[i], baseline_name, methods_data)]

\* for group in bc["comparisonGroups"]: comparison_groups.append({...})
comparison_groups(bc, methods_data) ==
  [i \in 1..Len(bc.comparisonGroups) |->
     LET group == bc.comparisonGroups[i]
         baseline_name == IF group.baseline = None THEN "" ELSE group.baseline[1]
     IN [id |-> group.id, baseline |-> baseline_name,
         methods |-> group_methods(group.methods, baseline_name, methods_data)]]

out_json(bc, methods_data) ==
  [benchmarkClass |-> bc.class, comparisonGroups |-> comparison_groups(bc, methods_data)]

write_text(directory, f, doc) ==
  [g \in DOMAIN directory \cup {f} |-> IF g = f THEN doc ELSE directory[g]]

\* one class converted: the file written, or the exception of its rows
convert_class(bc, methods_data, acc) ==
  IF Raised(methods_data) THEN [acc EXCEPT !.exc = methods_data.exc]
  ELSE [acc EXCEPT !.created = Append(@, file_of(bc.class)),
                   !.latest = write_text(@, file_of(bc.class),
                                         out_json(bc, methods_data.value))]

\* for bc in groups_config["benchmarkClasses"]; acc is the exception raised
\* so far, the files created and the latest directory
RECURSIVE convert_classes(_, _, _)
convert_classes(classes, csv_files, acc) ==
  IF classes = <<>> \/ acc.exc # "" THEN acc
  ELSE IF ~DictHas(csv_files, Head(classes).class)
  THEN convert_classes(Tail(classes), csv_files, acc)
  ELSE convert_classes(Tail(classes), csv_files,
         convert_class(Head(classes),
                       read_rows(DictGet(csv_files, Head(classes).class)[1], Return(<<>>)),
                       acc))

convert_bdn_csv(config, csv_files, latest_dir) ==
  convert_classes(config, csv_files, [exc |-> "", created |-> <<>>, latest |-> latest_dir])

\* regenerate-data.py: the measurements are the table MEASUREMENTS, here
\* with entries for the methods A and B
MEASUREMENTS ==
  << [key |-> "A", value |-> [mean_us |-> Some(Dec(1038, -1)), error_us |-> Some(Dec(2, -1)),
                              stddev_us |-> Some(Dec(11, -2)), gbPerSec |-> Some(Dec(353, -1)),
                              allocated |-> 0]],
     [key |-> "B", value |-> [mean_us |-> Some(Dec(1066, -1)), error_us |-> Some(Dec(28, -2)),
                              stddev_us |-> Some(Dec(15, -2)), gbPerSec |-> Some(Dec(3437, -2)),
                              allocated |-> 0]] >>

\* for bc in groups_config["benchmarkClasses"]: both directories are written
RECURSIVE regenerate_classes(_, _)
regenerate_classes(classes, acc) ==
  IF classes = <<>> THEN acc
  ELSE LET bc == Head(classes)
           doc == out_json(bc, MEASUREMENTS)
       IN regenerate_classes(Tail(classes),
            [created |-> Append(acc.created, file_of(bc.class)),
             baseline |-> write_text(acc.baseline, file_of(bc.class), doc),
             latest |-> write_text(acc.latest, file_of(bc.class), doc)])

regenerate_data(config, baseline_dir, latest_dir) ==
  regenerate_classes(config, [created |-> <<>>, baseline |-> baseline_dir, latest |-> latest_dir])

-----------------------------------------------------------------------------
(* The stored snapshot documents the commands are run on *)

MaxMethods == 2

Names == {"A", "B", "C"}

Means == {0, 94, 100, 102, 105, 106}

OptMeans == {None} \cup {Some(v) : v \in Means}

\* a method record of a stored document; the label tells where it is from
Method(cls, gid, ver, name, mean, flag) ==
  [name |-> name, label |-> <<cls, gid, name, ver>>, isBaseline |-> flag, mean_us |-> mean]

Group(gid, baseline, methods) == [id |-> gid, baseline |-> baseline, methods |-> methods]

Doc(cls, groups) == [benchmarkClass |-> cls, comparisonGroups |-> groups]

OneFile(doc) == [f \in {1} |-> doc]

\* sequences of distinct names, at most MaxMethods long
NameSeqs ==
  UNION {{q \in [1..n -> Names] : \A i, j \in 1..n : i # j => q[i] # q[j]} : n \in 0..MaxMethods}

\* isBaseline as convert_bdn_csv and regenerate-data.py write it
Written(cls, gid, ver, baseline, names, means) ==
  Group(gid, baseline,
        [i \in 1..Len(names) |-> Method(cls, gid, ver, names[i], means[i], names[i] = baseline)])

(* Values: one class, one group with methods A and B on both sides, every  *)
(* combination of means; the latest group as the converter writes it with  *)
(* baseline A, with no baseline, with a baseline name that is not a method *)
(* of the group, or edited so that the flag is on A and the name says B,   *)
(* no method is flagged and the name says A, or both are flagged           *)
LatestVariants(means) ==
  { Written("c1", "g1", "new", "A", <<"A", "B">>, means),
    Written("c1", "g1", "new", "", <<"A", "B">>, means),
    Written("c1", "g1", "new", "C", <<"A", "B">>, means),
    Group("g1", "B", <<Method("c1", "g1", "new", "A", means[1], TRUE),
                       Method("c1", "g1", "new", "B", means[2], FALSE)>>),
    Group("g1", "A", <<Method("c1", "g1", "new", "A", means[1], FALSE),
                       Method("c1", "g1", "new", "B", means[2], FALSE)>>),
    Group("g1", "B", <<Method("c1", "g1", "new", "A", means[1], TRUE),
                       Method("c1", "g1", "new", "B", means[2], TRUE)>>) }

InitValues ==
  \E lm \in OptMeans \X OptMeans, bm \in OptMeans \X OptMeans :
    \E g \in LatestVariants(lm) :
      /\ latestDir = OneFile(Doc("c1", <<g>>))
      /\ baselineDir = OneFile(Doc("c1", <<Written("c1", "g1", "old", "A", <<"A", "B">>, bm)>>))

(* Values without a counterpart: the same latest groups, the baseline      *)
(* directory holding another group of the class, or another class          *)
InitUnmatched ==
  \E lm \in OptMeans \X OptMeans, cls \in {"c1", "c2"} :
    \E g \in LatestVariants(lm) :
      /\ latestDir = OneFile(Doc("c1", <<g>>))
      /\ baselineDir = OneFile(Doc(cls, <<Written(cls, "g2", "old", "A", <<"A", "B">>,
                                                  <<Some(100), Some(100)>>)>>))

(* Values with no baseline directory at all *)
InitNoBaseline ==
  \E lm \in OptMeans \X OptMeans :
    \E g \in LatestVariants(lm) :
      /\ latestDir = OneFile(Doc("c1", <<g>>))
      /\ baselineDir = <<>>

(* Shapes: one class, one group, any two method lists of distinct names *)
InitShapes ==
  \E ln \in NameSeqs, bn \in NameSeqs :
    \E lm \in [1..Len(ln) -> {None, Some(94), Some(106)}],
       bm \in [1..Len(bn) -> {None, Some(100)}],
       b \in {"A", "C"} :
      /\ latestDir = OneFile(Doc("c1", <<Written("c1", "g1", "new", b, ln, lm)>>))
      /\ baselineDir = OneFile(Doc("c1", <<Written("c1", "g1", "old", "A", bn, bm)>>))

(* Corpora: up to two files per directory, each holding class c1 or c2     *)
(* with any list of the groups g1, g2; what a group holds is fixed by its  *)
(* directory, class and id                                                 *)
GroupIdSeqs == {<<>>, <<"g1">>, <<"g2">>, <<"g1", "g2">>, <<"g2", "g1">>}

LatestGroup(cls, gid) ==
  CASE cls = "c1" /\ gid = "g1" ->
         Written(cls, gid, "new", "A", <<"A", "B">>, <<Some(106), Some(94)>>)
    [] cls = "c1" /\ gid = "g2" ->
         Written(cls, gid, "new", "A", <<"A", "C">>, <<Some(94), Some(106)>>)
    [] cls = "c2" /\ gid = "g1" ->
         Written(cls, gid, "new", "B", <<"B", "A">>, <<Some(102), Some(100)>>)
    [] cls = "c2" /\ gid = "g2" ->
         Written(cls, gid, "new", "A", <<"A", "B">>, <<Some(100), None>>)

BaselineGroup(cls, gid) ==
  CASE cls = "c1" /\ gid = "g1" ->
         Written(cls, gid, "old", "A", <<"A", "B">>, <<Some(100), Some(100)>>)
    [] cls = "c1" /\ gid = "g2" ->
         Written(cls, gid, "old", "A", <<"C", "A">>, <<Some(100), Some(100)>>)
    [] cls = "c2" /\ gid = "g1" ->
         Written(cls, gid, "old", "B", <<"B">>, <<Some(100)>>)
    [] cls = "c2" /\ gid = "g2" ->
         Written(cls, gid, "old", "A", <<"A">>, <<Some(0)>>)

LatestDocs ==
  {Doc(cls, [i \in 1..Len(q) |-> LatestGroup(cls, q[i])]) : cls \in {"c1", "c2"}, q \in GroupIdSeqs}

BaselineDocs ==
  {Doc(cls, [i \in 1..Len(q) |-> BaselineGroup(cls, q[i])]) : cls \in {"c1", "c2"}, q \in GroupIdSeqs}

Dirs(docs) == UNION {[fs -> docs] : fs \in SUBSET {1, 2}}

InitCorpora ==
  /\ latestDir \in Dirs(LatestDocs)
  /\ baselineDir \in Dirs(BaselineDocs)

(* Malformed files: up to two files per directory, each a document of c1   *)
(* or c2 with the group g1, a file that is not JSON, a document without    *)
(* metadata.benchmarkClass, or a document of c1 without comparisonGroups   *)
MalformedDocs == {Unparseable, NoClassName, NoGroups("c1")}

InitMalformed ==
  /\ latestDir \in Dirs(MalformedDocs \cup {Doc(cls, <<LatestGroup(cls, "g1")>>) :
                                              cls \in {"c1", "c2"}})
  /\ baselineDir \in Dirs(MalformedDocs \cup {Doc(cls, <<BaselineGroup(cls, "g1")>>) :
                                                cls \in {"c1", "c2"}})

NotParsed == [fn |-> "", result |-> Return(None)]

NoField ==
  /\ field = <<>>
  /\ value = None
  /\ parsed = NotParsed

NoConversion ==
  /\ groups_config = <<>>
  /\ artifacts = <<>>
  /\ created = <<>>

Init ==
  /\ \/ InitValues
     \/ InitUnmatched
     \/ InitNoBaseline
     \/ InitShapes
     \/ InitCorpora
     \/ InitMalformed
  /\ command = ""
  /\ outcome = ""
  /\ html = None
  /\ NoField
  /\ NoConversion

-----------------------------------------------------------------------------
(* The commands of main() *)

GenerateRegressionReport ==
  LET r == generate_regression_report(baselineDir, latestDir)
  IN /\ command' = "regression"
     /\ outcome' = r.outcome
     /\ html' = r.html
     /\ UNCHANGED <<baselineDir, latestDir, parseVars, convertVars>>

GeneratePublicReport ==
  LET r == generate_public_report(baselineDir)
  IN /\ command' = "public"
     /\ outcome' = r.outcome
     /\ html' = r.html
     /\ UNCHANGED <<baselineDir, latestDir, parseVars, convertVars>>

PromoteBaseline ==
  /\ baselineDir' = promote_baseline(baselineDir, latestDir)
  /\ command' = "baseline"
  /\ outcome' = "None"
  /\ html' = None
  /\ UNCHANGED <<latestDir, parseVars, convertVars>>

Next == GenerateRegressionReport \/ GeneratePublicReport \/ PromoteBaseline

Spec == Init /\ [][Next]_vars

-----------------------------------------------------------------------------
(* The field parsers and the time formatter, on one field *)

MaxMag == 2

MagChars == {"1", "8", ".", ",", " ", "x"}

Magnitudes ==
  UNION {[1..n -> MagChars] : n \in 0..MaxMag} \cup {<<"i", "n", "f">>, <<"n", "a", "n">>}

Suffixes ==
  { <<>>, <<" ", "u", "s">>, <<" ", "n", "s">>, <<" ", "m", "s">>, <<" ", "s">>,
    <<" ", "U+00B5", "s">>, <<" ", "U+03BC", "s">>, <<"u", "s">>, <<"m", "s">>, <<"s">>,
    <<" ", "B">>, <<" ", "K", "B">>, <<"B">>, <<"K", "B">>, <<" ", "M", "B">>,
    <<"N", "A">>, <<"N", "/", "A">>, <<"-">> }

Fields == {m \o u : m \in Magnitudes, u \in Suffixes}

\* microsecond values of at most 3 decimals, none on a tie of the formatter
Wholes == {0, 1, 12, 999, 1000, 1234, 1234567}

Fracs == {0, 1, 49, 100, 290, 449, 951, 999}

Micros == {Dec(1000 * w + f, -3) : w \in Wholes, f \in Fracs}

InitParse ==
  /\ baselineDir = <<>>
  /\ latestDir = <<>>
  /\ command = ""
  /\ outcome = ""
  /\ html = None
  /\ NoConversion
  /\ parsed = NotParsed
  /\ \/ field \in Fields /\ value = None
     \/ field = <<>> /\ value \in {Some(v) : v \in Micros}

ParseUs ==
  /\ parsed' = [fn |-> "parse_us", result |-> parse_us(field)]
  /\ UNCHANGED <<field, value, reportVars, convertVars>>

ParseBytes ==
  /\ parsed' = [fn |-> "parse_bytes", result |-> parse_bytes(field)]
  /\ UNCHANGED <<field, value, reportVars, convertVars>>

GbPerSec ==
  /\ parsed' = [fn |-> "gbPerSec", result |-> gbPerSec(field)]
  /\ UNCHANGED <<field, value, reportVars, convertVars>>

FmtUs ==
  /\ field' = fmt_us(value)
  /\ parsed' = [fn |-> "fmt_us", result |-> Return(None)]
  /\ UNCHANGED <<value, reportVars, convertVars>>

NextParse == ParseUs \/ ParseBytes \/ GbPerSec \/ FmtUs

ParseSpec == InitParse /\ [][NextParse]_vars

-----------------------------------------------------------------------------
(* The converters, on one configuration and one set of CSV reports *)

MaxRows == 2

\* method definitions of a group: any names, repeated or not
ConfigMethods(names) ==
  [i \in 1..Len(names) |-> [name |-> names[i], label |-> <<names[i], i>>]]

ConfigNameSeqs == UNION {[1..n -> Names] : n \in 0..MaxMethods}

ConfigGroup(gid, baseline, names) ==
  [id |-> gid, baseline |-> baseline, methods |-> ConfigMethods(names)]

ConfigClass(cls, groups) == [class |-> cls, comparisonGroups |-> groups]

\* class c1 with one group of any methods and baseline; class c2, when
\* configured, with two fixed groups, the second without a baseline
Configs ==
  {<<ConfigClass("c1", <<ConfigGroup("g1", b, names)>>)>> \o rest :
     b \in {None, Some("A"), Some("C")}, names \in ConfigNameSeqs,
     rest \in {<<>>, <<ConfigClass("c2", <<ConfigGroup("g1", Some("A"), <<"A", "B">>),
                                          ConfigGroup("g2", None, <<"B">>)>>)>>}}

\* rows of a CSV report: two measured rows for A, one for B, one for B with
\* a magnitude that is not a number, and one without a method name
CsvRows ==
  { Row("A", <<"8", " ", "m", "s">>, <<".", "1", " ", "u", "s">>, <<"N", "A">>,
        <<"8", " ", "B">>, <<"1", "8", ".", "1">>),
    Row("A", <<"1", ".", "8", " ", "u", "s">>, <<>>, <<>>, <<"-">>, <<>>),
    Row("B", <<"1", ",", "8", "1", "8", " ", "n", "s">>, <<"1", " ", "n", "s">>,
        <<"8", " ", "n", "s">>, <<"1", ".", "8", " ", "K", "B">>, <<"N", "A">>),
    Row("B", <<"x", " ", "u", "s">>, <<>>, <<>>, <<>>, <<>>),
    Row("", <<"1", " ", "s">>, <<>>, <<>>, <<>>, <<>>) }

CsvFiles == UNION {[1..n -> CsvRows] : n \in 0..MaxRows}

\* the CSV reports found: none or one for c1, none or a fixed one for c2
Artifacts ==
  {c1 \o c2 :
     c1 \in {<<>>} \cup {<<[key |-> "c1", value |-> rows]>> : rows \in CsvFiles},
     c2 \in {<<>>, <<[key |-> "c2", value |-> <<Row("B", <<"8", " ", "u", "s">>, <<>>, <<>>,
                                                    <<>>, <<>>)>>]>>}}

\* what an earlier conversion of class c2 under another configuration left
StaleLatest ==
  [f \in {2} |-> out_json(ConfigClass("c2", <<ConfigGroup("g9", Some("C"), <<"C">>)>>), <<>>)]

InitConvert ==
  /\ groups_config \in Configs
  /\ artifacts \in Artifacts
  /\ created = <<>>
  /\ latestDir \in {<<>>, StaleLatest}
  /\ baselineDir = <<>>
  /\ command = ""
  /\ outcome = ""
  /\ html = None
  /\ NoField

ConvertBdnCsv ==
  LET r == convert_bdn_csv(groups_config, artifacts, latestDir)
  IN /\ latestDir' = r.latest
     /\ created' = r.created
     /\ command' = "convert"
     /\ outcome' = IF r.exc # "" THEN r.exc ELSE "created"
     /\ UNCHANGED <<baselineDir, html, groups_config, artifacts, parseVars>>

RegenerateData ==
  LET r == regenerate_data(groups_config, baselineDir, latestDir)
  IN /\ latestDir' = r.latest
     /\ baselineDir' = r.baseline
     /\ created' = r.created
     /\ command' = "regenerate"
     /\ outcome' = "None"
     /\ UNCHANGED <<html, groups_config, artifacts, parseVars>>

NextConvert == ConvertBdnCsv \/ RegenerateData

ConvertSpec == InitConvert /\ [][NextConvert]_vars

-----------------------------------------------------------------------------
(* Reading a written report against the directories it was made from *)

LatestData == load_data_files(latestDir)

BaselineData == load_data_files(baselineDir)

Completed(cmd) == command = cmd /\ outcome = "out_path"

\* <<class index, group index>> of every group of the loaded data
GroupsOf(doc) == IF HasGroups(doc) THEN doc.comparisonGroups ELSE <<>>

Sections(data) ==
  UNION {{<<ci, gi>> : gi \in 1..Len(GroupsOf(data[ci].value))} : ci \in 1..Len(data)}

GroupAt(data, s) == data[s[1]].value.comparisonGroups[s[2]]

TableAt(s) == html[1].classes[s[1]].groups[s[2]].table

RowsAt(s) == TableAt(s).rows

\* the baseline group with the class name and group id of section s, if any
CounterpartIn(baseline_data, data, s) ==
  LET d == DictGet(baseline_data, data[s[1]].key)
  IN IF d = None THEN None
     ELSE DictGet(by_id(GroupsOf(d[1])), GroupAt(data, s).id)

Counterpart(s) == CounterpartIn(BaselineData, LatestData, s)

NamesOf(group) == [i \in 1..Len(group.methods) |-> group.methods[i].name]

NameSet(group) == {group.methods[i].name : i \in 1..Len(group.methods)}

MethodNamed(group, name) ==
  group.methods[CHOOSE i \in 1..Len(group.methods) : group.methods[i].name = name]

\* labels listed by the summary banners of the report
Listed(class) ==
  {html[1].summary[b].entries[e] :
     <<b, e>> \in UNION {{<<b, e>> : e \in 1..Len(html[1].summary[b].entries)} :
                          b \in {c \in 1..Len(html[1].summary) :
                                   html[1].summary[c].class = class}}}

ListedLabels(class) == {x[1] : x \in Listed(class)}

\* what a row of the regression table says about the change over time
RowTemporal(row) ==
  IF row.delta_str = None /\ row.pct_str = None THEN "unknown"
  ELSE IF row.delta_class = "delta-positive" THEN "improved"
  ELSE IF row.delta_class = "delta-negative" THEN "regressed"
  ELSE "neutral"

\* the classification of section 4.3, on exact arithmetic
Temporal(bl_mean, lt_mean) ==
  IF bl_mean = None \/ lt_mean = None THEN "unknown"
  ELSE IF bl_mean[1] = 0 THEN "neutral"
  ELSE IF 100 * (lt_mean[1] - bl_mean[1]) < (-5) * bl_mean[1] THEN "improved"
  ELSE IF 100 * (lt_mean[1] - bl_mean[1]) > 5 * bl_mean[1] THEN "regressed"
  ELSE "neutral"

-----------------------------------------------------------------------------
(* C1: for every method the temporal classification of the regression      *)
(* table and of the summary is improved exactly when the percentage is     *)
(* below -5, regressed exactly when above +5, neutral otherwise, and       *)
(* unknown when a mean is absent.                                          *)
(* The table classifies at 1.5 percent, so this fails.                     *)
C1_TemporalClassification ==
  Completed("regression") =>
    \A s \in Sections(LatestData) :
      TableAt(s).kind = "regression" =>
        /\ \A i \in 1..Len(RowsAt(s)) :
             RowTemporal(RowsAt(s)[i]) = Temporal(RowsAt(s)[i].bl_mean, RowsAt(s)[i].lt_mean)
        /\ \A i \in 1..Len(RowsAt(s)) :
             RowsAt(s)[i].name \in NameSet(GroupAt(LatestData, s)) =>
               LET t == Temporal(RowsAt(s)[i].bl_mean, RowsAt(s)[i].lt_mean)
                   l == RowsAt(s)[i].label
               IN /\ l \in ListedLabels("summary-fail") <=> t = "regressed"
                  /\ l \in ListedLabels("summary-pass") <=> t = "improved"

\* the data a written report was made from
ReportData == IF command = "public" THEN BaselineData ELSE LatestData

\* the rows of section s that were rendered for the method called name
RowsNamed(s, name) == {RowsAt(s)[i] : i \in {j \in 1..Len(RowsAt(s)) : RowsAt(s)[j].name = name}}

\* a method of a matched group with a present mean whose baseline mean is 0
ZeroBaselineMean ==
  \E s \in Sections(LatestData) :
    /\ Counterpart(s) # None
    /\ \E m \in {GroupAt(LatestData, s).methods[i] : i \in 1..Len(GroupAt(LatestData, s).methods)} :
         /\ m.mean_us # None
         /\ mean_of(by_name(Counterpart(s)[1].methods), m.name) = Some(0)

(* C2: the delta is current - baseline when both means are present, the    *)
(* percentage 100 * delta / baseline when the baseline mean is present and *)
(* not zero, both absent otherwise; with both means present and a baseline *)
(* mean of 0 the analysis still completes.                                 *)
(* The summary loop divides by the baseline mean, so this fails.           *)
C2_TemporalDelta ==
  /\ (command = "regression" /\ ZeroBaselineMean) => outcome = "out_path"
  /\ Completed("regression") =>
       \A s \in Sections(LatestData) :
         TableAt(s).kind = "regression" =>
           \A i \in 1..Len(RowsAt(s)) :
             LET row == RowsAt(s)[i]
                 both == row.bl_mean # None /\ row.lt_mean # None
             IN /\ row.delta_str = IF both THEN Some(row.lt_mean[1] - row.bl_mean[1]) ELSE None
                /\ row.pct_str = IF both /\ row.bl_mean[1] # 0
                                 THEN Some(RoundDiv(1000 * (row.lt_mean[1] - row.bl_mean[1]),
                                                    row.bl_mean[1]))
                                 ELSE None

\* the within-group result of section 4.3 for means mm and bm, as a
\* condition on what a row shows; the displayed number x is in hundredths
Within(ratio_str, ratio_class, mm, bm) ==
  IF mm = None \/ bm = None \/ bm = Some(0)
  THEN ratio_str = RatioStr(None, "-")
  ELSE IF 1000 * Abs(mm[1] - bm[1]) < 15 * bm[1]
  THEN ratio_str = RatioStr(Some(100), "x") /\ ratio_class = "neutral"
  ELSE IF mm[1] < bm[1]
  THEN /\ ratio_class = "faster" /\ ratio_str.word = "x faster" /\ ratio_str.x # None
       /\ 2 * Abs(ratio_str.x[1] * mm[1] - 100 * bm[1]) <= mm[1]
  ELSE /\ ratio_class = "slower" /\ ratio_str.word = "x slower" /\ ratio_str.x # None
       /\ 2 * Abs(ratio_str.x[1] * bm[1] - 100 * mm[1]) <= bm[1]

(* C3: every method that is not the baseline gets the within-group result  *)
(* of compute_ratio: unknown when a mean is absent or the reference mean   *)
(* is 0, neutral within 1.5 percent, else faster showing 1 / ratio or      *)
(* slower showing ratio; unknown (a dash) differs from neutral (1.00x).    *)
(* compute_ratio raises on a mean of 0 against a non-zero reference, so    *)
(* this fails.                                                             *)
C3_WithinGroupResult ==
  (command = "public" /\ BaselineData # <<>>) =>
    /\ outcome = "out_path"
    /\ \A s \in Sections(BaselineData) :
         LET group == GroupAt(BaselineData, s)
         IN \A i \in 1..Len(group.methods) :
              ~group.methods[i].isBaseline =>
                Within(RowsAt(s)[i].ratio_str, RowsAt(s)[i].ratio_class,
                       group.methods[i].mean_us,
                       first_mean_named(group.methods, group.baseline))

(* C4: in every regression or public table a method flagged isBaseline in  *)
(* the current group is shown with the tag baseline, also when its name is *)
(* not the group's baseline name.                                          *)
(* The regression table goes by the name, so this fails.                   *)
C4_FlaggedIsBaseline ==
  (command \in {"public", "regression"} /\ outcome = "out_path") =>
    \A s \in Sections(ReportData) :
      \A i \in 1..Len(GroupAt(ReportData, s).methods) :
        GroupAt(ReportData, s).methods[i].isBaseline =>
          /\ RowsNamed(s, GroupAt(ReportData, s).methods[i].name) # {}
          /\ \A row \in RowsNamed(s, GroupAt(ReportData, s).methods[i].name) :
               row.ratio_str = RatioStr(None, "baseline")

-----------------------------------------------------------------------------
\* the one row of a table rendered for the method called name
RowNamed(table, name) ==
  table.rows[CHOOSE i \in 1..Len(table.rows) : table.rows[i].name = name]

\* other historical baselines to run the same latest directory against
AltGroup(cls, gid, names, means) == Written(cls, gid, "alt", "B", names, means)

AltBaselineDirs ==
  { OneFile(Doc("c1", <<AltGroup("c1", "g1", <<"B", "A">>, <<Some(94), Some(105)>>)>>)),
    OneFile(Doc("c1", <<AltGroup("c1", "g1", <<"C", "A", "B">>, <<Some(100), Some(102), None>>)>>)),
    OneFile(Doc("c1", <<AltGroup("c1", "g1", <<"A">>, <<Some(0)>>)>>)),
    [f \in {1, 2} |->
       IF f = 1
       THEN Doc("c2", <<AltGroup("c2", "g2", <<"B", "A">>, <<Some(105), Some(94)>>),
                        AltGroup("c2", "g1", <<"A", "B">>, <<Some(94), Some(106)>>)>>)
       ELSE Doc("c1", <<AltGroup("c1", "g2", <<"A", "C">>, <<Some(105), Some(102)>>),
                        AltGroup("c1", "g1", <<"A", "B">>, <<Some(102), Some(94)>>)>>)] }

\* sections of the report and of a second run r that are regression tables in both
SharedSections(r) ==
  {s \in Sections(LatestData) :
     /\ TableAt(s).kind = "regression"
     /\ r.html[1].classes[s[1]].groups[s[2]].table.kind = "regression"}

(* C5: the within-group ratio and classification of every method of the    *)
(* current group are the same whichever historical baseline the regression *)
(* analysis is run against, for baselines that hold the class and group.   *)
C5_WithinGroupIgnoresHistory ==
  Completed("regression") =>
    \A alt \in AltBaselineDirs :
      LET r == generate_regression_report(alt, latestDir)
      IN r.outcome = "out_path" =>
           \A s \in SharedSections(r) :
             \A name \in NameSet(GroupAt(LatestData, s)) :
               LET here == RowNamed(TableAt(s), name)
                   there == RowNamed(r.html[1].classes[s[1]].groups[s[2]].table, name)
               IN /\ here.ratio_str = there.ratio_str
                  /\ here.ratio_class = there.ratio_class

\* two baselines with different means for the reference method, and a
\* method of the current group that is faster or slower than it
C5_Witness ==
  /\ Completed("regression")
  /\ \E alt \in AltBaselineDirs :
       LET r == generate_regression_report(alt, latestDir)
       IN /\ r.outcome = "out_path"
          /\ \E s \in SharedSections(r) :
               LET group == GroupAt(LatestData, s)
                   old == Counterpart(s)[1]
                   other == CounterpartIn(load_data_files(alt), LatestData, s)[1]
               IN /\ first_mean_named(old.methods, group.baseline) # None
                  /\ first_mean_named(other.methods, group.baseline) # None
                  /\ first_mean_named(old.methods, group.baseline)
                       # first_mean_named(other.methods, group.baseline)
                  /\ \E name \in NameSet(group) :
                       RowNamed(TableAt(s), name).ratio_class \in {"faster", "slower"}

(* C6: the names of a regression table are the names of the current group  *)
(* in their order, followed by the names only the baseline group has, in   *)
(* the baseline group's order; each name of either group exactly once.     *)
C6_MergeOrder ==
  Completed("regression") =>
    \A s \in Sections(LatestData) :
      Counterpart(s) # None =>
        LET cur == NamesOf(GroupAt(LatestData, s))
            old == NamesOf(Counterpart(s)[1])
            names == [i \in 1..Len(RowsAt(s)) |-> RowsAt(s)[i].name]
            only_old == SelectSeq(old, LAMBDA n : \A i \in 1..Len(cur) : cur[i] # n)
        IN /\ TableAt(s).kind = "regression"
           /\ names = cur \o only_old
           /\ {names[i] : i \in 1..Len(names)}
                = NameSet(GroupAt(LatestData, s)) \cup NameSet(Counterpart(s)[1])
           /\ \A i, j \in 1..Len(names) : i # j => names[i] # names[j]

\* a baseline group that lists a name the current group lacks before one
\* that both have
C6_Witness ==
  /\ Completed("regression")
  /\ \E s \in Sections(LatestData) :
       /\ Counterpart(s) # None
       /\ Len(GroupAt(LatestData, s).methods) = 2
       /\ LET old == NamesOf(Counterpart(s)[1])
          IN /\ Len(old) = 2
             /\ old[1] \notin NameSet(GroupAt(LatestData, s))
             /\ old[2] \in NameSet(GroupAt(LatestData, s))
       /\ Len(RowsAt(s)) = 3

(* C7: a name that only one of the two matched groups has still gets a     *)
(* row, with no delta, no percentage and temporal classification unknown;  *)
(* with no row in the current snapshot its within-group result is unknown  *)
(* too; and it is not in the summary.                                      *)
(* A baseline-only name that equals the current group's baseline name is   *)
(* shown as the baseline, so this fails.                                   *)
C7_OneSidedMethod ==
  Completed("regression") =>
    \A s \in Sections(LatestData) :
      Counterpart(s) # None =>
        LET cur == NameSet(GroupAt(LatestData, s))
            old == NameSet(Counterpart(s)[1])
        IN \A name \in (cur \cup old) \ (cur \cap old) :
             /\ RowsNamed(s, name) # {}
             /\ \A row \in RowsNamed(s, name) :
                  /\ row.delta_str = None
                  /\ row.pct_str = None
                  /\ RowTemporal(row) = "unknown"
                  /\ name \notin cur => row.ratio_str = RatioStr(None, "-")
                  /\ row.label \notin ListedLabels("summary-fail") \cup ListedLabels("summary-pass")

(* C8: with a class or group of the current corpus that the baseline       *)
(* corpus lacks, the analysis does not fail; every method of that scope is *)
(* reported with its within-group result from current data alone, without  *)
(* temporal columns, and is not in the summary.                            *)
(* compute_ratio raises on a mean of 0 in that scope, and the summary loop *)
(* on a baseline mean of 0 in another, so this fails.                      *)
C8_MissingCounterpart ==
  (command = "regression" /\ \E s \in Sections(LatestData) : Counterpart(s) = None) =>
    /\ outcome = "out_path"
    /\ \A s \in Sections(LatestData) :
         Counterpart(s) = None =>
           LET group == GroupAt(LatestData, s)
           IN /\ TableAt(s).kind = "public"
              /\ Len(RowsAt(s)) = Len(group.methods)
              /\ \A i \in 1..Len(group.methods) :
                   /\ IF group.methods[i].isBaseline
                      THEN RowsAt(s)[i].ratio_str = RatioStr(None, "baseline")
                      ELSE Within(RowsAt(s)[i].ratio_str, RowsAt(s)[i].ratio_class,
                                  group.methods[i].mean_us,
                                  first_mean_named(group.methods, group.baseline))
                   /\ group.methods[i].label
                        \notin ListedLabels("summary-fail") \cup ListedLabels("summary-pass")

-----------------------------------------------------------------------------
(* The summary against the traversal of the latest data *)

\* <<class index, group index, method index>> of every method of the latest data
Positions ==
  UNION {{<<s[1], s[2], mi>> : mi \in 1..Len(GroupAt(LatestData, s).methods)} :
           s \in Sections(LatestData)}

MethodAt(p) == GroupAt(LatestData, <<p[1], p[2]>>).methods[p[3]]

\* the mean of the same method in the counterpart group, None without one
BaselineMeanAt(p) ==
  IF Counterpart(<<p[1], p[2]>>) = None THEN None
  ELSE mean_of(by_name(Counterpart(<<p[1], p[2]>>)[1].methods), MethodAt(p).name)

TemporalAt(p) == Temporal(BaselineMeanAt(p), MethodAt(p).mean_us)

\* class, then group, then method order
Before(p, q) ==
  \/ p[1] < q[1]
  \/ p[1] = q[1] /\ p[2] < q[2]
  \/ p[1] = q[1] /\ p[2] = q[2] /\ p[3] < q[3]

PositionOf(label) == CHOOSE p \in Positions : MethodAt(p).label = label

\* the entries of the two banners, and the summary as the report lists it
RegressionEntries ==
  IF \E b \in 1..Len(html[1].summary) : html[1].summary[b].class = "summary-fail"
  THEN html[1].summary[CHOOSE b \in 1..Len(html[1].summary) :
                         html[1].summary[b].class = "summary-fail"].entries
  ELSE <<>>

ImprovementEntries ==
  IF \E b \in 1..Len(html[1].summary) :
       html[1].summary[b].class = "summary-pass" /\ html[1].summary[b].entries # <<>>
  THEN html[1].summary[CHOOSE b \in 1..Len(html[1].summary) :
                         /\ html[1].summary[b].class = "summary-pass"
                         /\ html[1].summary[b].entries # <<>>].entries
  ELSE <<>>

SummaryEntries == RegressionEntries \o ImprovementEntries

\* entries lists exactly the methods classified in classes, each with its
\* percentage, in traversal order
ListsInOrder(entries, classes) ==
  /\ {entries[i][1] : i \in 1..Len(entries)}
       = {MethodAt(p).label : p \in {q \in Positions : TemporalAt(q) \in classes}}
  /\ \A i \in 1..Len(entries) :
       \E p \in Positions :
         /\ MethodAt(p).label = entries[i][1]
         /\ TemporalAt(p) \in classes
         /\ entries[i][2] = RoundDiv(1000 * (MethodAt(p).mean_us[1] - BaselineMeanAt(p)[1]),
                                     BaselineMeanAt(p)[1])
  /\ \A i, j \in 1..Len(entries) :
       i < j => Before(PositionOf(entries[i][1]), PositionOf(entries[j][1]))

(* C9 as stated: the summary is one flat list of (label, percentage) with  *)
(* exactly the improved and regressed methods, each once, in class, group, *)
(* method order of the current snapshot.                                   *)
(* The report lists every regression before every improvement, so this     *)
(* fails.                                                                  *)
C9_FlatListInTraversalOrder ==
  Completed("regression") => ListsInOrder(SummaryEntries, {"improved", "regressed"})

(* C9 as amended: the summary is two lists, the regressions (above +5      *)
(* percent) and the improvements (below -5 percent); each holds exactly    *)
(* the methods of its classification, each once, in class, group, method   *)
(* order of the current snapshot; neutral and unknown methods are in       *)
(* neither.                                                                *)
C9_TwoListsInTraversalOrder ==
  Completed("regression") =>
    /\ ListsInOrder(RegressionEntries, {"regressed"})
    /\ ListsInOrder(ImprovementEntries, {"improved"})
    /\ Len(html[1].summary) <= 2

\* an improved method before a regressed one, a neutral one and two
\* regressions from different groups
C9_Witness ==
  /\ Completed("regression")
  /\ \E p, q \in Positions :
       Before(p, q) /\ TemporalAt(p) = "improved" /\ TemporalAt(q) = "regressed"
  /\ \E p \in Positions : TemporalAt(p) = "neutral"
  /\ Len(RegressionEntries) >= 2
  /\ \E i, j \in 1..Len(RegressionEntries) :
       PositionOf(RegressionEntries[i][1])[2] # PositionOf(RegressionEntries[j][1])[2]

(* C10: a snapshot compared with itself completes, with delta 0 and        *)
(* classification neutral for every method whose mean is present, a mean   *)
(* of 0 included, and nothing in the summary.                              *)
(* A mean of 0 is then a baseline mean of 0 and the summary loop divides   *)
(* by it, so this fails.                                                   *)
C10_SelfComparison ==
  (command = "regression" /\ baselineDir = latestDir /\ LatestData # <<>>) =>
    /\ outcome = "out_path"
    /\ SummaryEntries = <<>>
    /\ \A s \in Sections(LatestData) :
         /\ TableAt(s).kind = "regression"
         /\ \A i \in 1..Len(GroupAt(LatestData, s).methods) :
              GroupAt(LatestData, s).methods[i].mean_us # None =>
                \A row \in RowsNamed(s, GroupAt(LatestData, s).methods[i].name) :
                  /\ row.delta_str = Some(0)
                  /\ RowTemporal(row) = "neutral"

-----------------------------------------------------------------------------
(* Reading the result of a parser against the field it was given *)

ParsedBy(fn) == parsed.fn = fn

\* a text as magnitude and unit: the unit is what follows the last blank,
\* the magnitude what precedes it
LastBlankOf(t) == IF \E i \in 1..Len(t) : t[i] = " "
                  THEN CHOOSE i \in 1..Len(t) :
                         t[i] = " " /\ \A j \in (i + 1)..Len(t) : t[j] # " "
                  ELSE 0

UnitOf(t) == SubSeq(t, LastBlankOf(t) + 1, Len(t))

MagnitudeOf(t) == SubSeq(t, 1, LastBlankOf(t) - 1)

\* the field as parse_us reads it: without commas and surrounding blanks
Trimmed == strip(replace(field, <<",">>, <<>>))

LastBlank == LastBlankOf(Trimmed)

UnitText == UnitOf(Trimmed)

MagnitudeText == MagnitudeOf(Trimmed)

\* the time units and the power of ten each multiplies by
TimeUnits == { [unit |-> <<"n", "s">>, exp |-> -3],
               [unit |-> <<"u", "s">>, exp |-> 0],
               [unit |-> <<"U+00B5", "s">>, exp |-> 0],
               [unit |-> <<"U+03BC", "s">>, exp |-> 0],
               [unit |-> <<"m", "s">>, exp |-> 3],
               [unit |-> <<"s">>, exp |-> 6] }

HasTimeUnit == LastBlank > 0 /\ \E u \in TimeUnits : u.unit = UnitText

TimeUnit == CHOOSE u \in TimeUnits : u.unit = UnitText

IsNumber(s) == ~Raised(float(s))

AbsentText == field \in {<<>>, <<"N", "A">>, <<"N", "/", "A">>}

(* C11: parse_us gives absent for "", "NA" and "N/A"; a number followed by *)
(* a blank and a unit is converted with the factor of that unit alone     *)
(* (ns / 1000, us and its two micro-sign spellings * 1, ms * 1000,         *)
(* s * 1000000), commas ignored; a number with no unit is taken as         *)
(* microseconds.  Results are rounded to 3 decimals.                       *)
C11_ParseTime ==
  ParsedBy("parse_us") =>
    /\ AbsentText => parsed.result = Return(None)
    /\ ~AbsentText /\ HasTimeUnit /\ IsNumber(MagnitudeText) =>
         parsed.result =
           Return(Some(round(Scale(float(MagnitudeText).value, TimeUnit.exp), 3)))
    /\ ~AbsentText /\ ~HasTimeUnit /\ IsNumber(Trimmed) =>
         parsed.result = Return(Some(round(float(Trimmed).value, 3)))

\* "18 ms" parsed as 18000 microseconds
C11_Witness ==
  /\ ParsedBy("parse_us")
  /\ field = <<"1", "8", " ", "m", "s">>
  /\ parsed.result = Return(Some(Dec(18000, 0)))

\* the parser returned v
Returned(v) == ~Raised(parsed.result) /\ parsed.result.value = v

\* a field that ends in a blank and a unit of time or of size
HasUnitSuffix(t) ==
  LastBlankOf(t) > 0 /\ UnitOf(t) \in {u.unit : u \in TimeUnits} \cup {<<"B">>, <<"K", "B">>}

(* C12: whatever the field, parse_us returns a number or absent, the       *)
(* throughput conversion returns a number or absent and parse_bytes        *)
(* returns an integer, none of them raising; a unit preceded by a          *)
(* magnitude that is not a number gives absent (time, throughput) or 0     *)
(* (bytes).                                                                *)
(* float() of the magnitude is outside any try in the suffix branches and  *)
(* in the throughput conversion, so this fails.                            *)
C12_NoFieldAborts ==
  /\ ParsedBy("parse_us") \/ ParsedBy("parse_bytes") \/ ParsedBy("gbPerSec") =>
       ~Raised(parsed.result)
  /\ ParsedBy("parse_us") /\ HasTimeUnit /\ ~IsNumber(MagnitudeText) =>
       Returned(None)
  /\ ParsedBy("gbPerSec") /\ ~IsNumber(field) => Returned(None)
  /\ ParsedBy("parse_bytes") /\ HasUnitSuffix(strip(field))
       /\ ~IsNumber(MagnitudeOf(strip(field))) => Returned(0)

\* a text that writes a finite number
IsFinite(s) == IsNumber(s) /\ float(s).value.class = "finite"

\* the integer part of the number a text writes, times k
Truncated(s, k) ==
  LET x == float(s).value
  IN IF x.e >= 0 THEN k * x.n * Pow10(x.e) ELSE (k * x.n) \div Pow10(-x.e)

BytesText == strip(field)

HasBytesUnit(unit) == LastBlankOf(BytesText) > 0 /\ UnitOf(BytesText) = unit

(* C13: parse_bytes gives 0 for "", "-" and "NA"; the integer part of the  *)
(* value for a value with suffix B; the integer part of 1024 times the     *)
(* value for a value with suffix KB; the integer part of a number with no  *)
(* suffix; and 0 for every other string.                                   *)
(* A suffix B or KB after something that is not a number raises            *)
(* ValueError and "inf" raises OverflowError, so this fails.               *)
C13_ParseBytes ==
  ParsedBy("parse_bytes") =>
    IF field \in {<<>>, <<"-">>, <<"N", "A">>} THEN Returned(0)
    ELSE IF HasBytesUnit(<<"B">>) /\ IsFinite(MagnitudeOf(BytesText))
    THEN Returned(Truncated(MagnitudeOf(BytesText), 1))
    ELSE IF HasBytesUnit(<<"K", "B">>) /\ IsFinite(MagnitudeOf(BytesText))
    THEN Returned(Truncated(MagnitudeOf(BytesText), 1024))
    ELSE IF IsFinite(BytesText)
    THEN Returned(Truncated(BytesText, 1))
    ELSE Returned(0)

\* a microsecond value in thousandths
Thousandths(x) == x.n * Pow10(x.e + 3)

(* C14: a microsecond value of at most 3 decimals, written by fmt_us and   *)
(* read back by parse_us, comes back present and less than 0.001 away      *)
(* from the value.                                                         *)
(* fmt_us keeps one decimal, so this fails.                                *)
C14_FormatParseRoundTrip ==
  ParsedBy("parse_us") /\ value # None /\ field = fmt_us(value) =>
    /\ ~Raised(parsed.result)
    /\ parsed.result.value # None
    /\ parsed.result.value[1].class = "finite"
    /\ Abs(Thousandths(parsed.result.value[1]) - Thousandths(value[1])) < 1

-----------------------------------------------------------------------------
(* Reading the documents a converter wrote against its inputs *)

Converted(cmd) == command = cmd

\* the configured classes whose document the last command wrote
WrittenClasses ==
  {i \in 1..Len(groups_config) :
     \E k \in 1..Len(created) : created[k] = file_of(groups_config[i].class)}

\* the rows of the class's CSV report that name the method
RowsOf(bc, name) ==
  LET csv_file == DictGet(artifacts, bc.class)
  IN IF csv_file = None THEN {}
     ELSE {csv_file[1][k] : k \in {j \in 1..Len(csv_file[1]) : csv_file[1][j].Method = name}}

\* the measurement part of a method record
Measurement(m) ==
  [mean_us |-> m.mean_us, error_us |-> m.error_us, stddev_us |-> m.stddev_us,
   gbPerSec |-> m.gbPerSec, allocated |-> m.allocated]

\* the measurements the command had for a method name
MeasuredAs(bc, name) ==
  IF command = "regenerate"
  THEN {MEASUREMENTS[k].value : k \in {j \in 1..Len(MEASUREMENTS) : MEASUREMENTS[j].key = name}}
  ELSE {row_data(row).value : row \in RowsOf(bc, name)}

AssembledAs(doc, bc) ==
  /\ doc.benchmarkClass = bc.class
  /\ Len(doc.comparisonGroups) = Len(bc.comparisonGroups)
  /\ \A g \in 1..Len(bc.comparisonGroups) :
       LET group == doc.comparisonGroups[g]
           conf == bc.comparisonGroups[g]
       IN /\ group.id = conf.id
          /\ group.baseline = (IF conf.baseline = None THEN "" ELSE conf.baseline[1])
          /\ Len(group.methods) = Len(conf.methods)
          /\ \A i \in 1..Len(conf.methods) :
               LET m == group.methods[i]
               IN /\ m.name = conf.methods[i].name
                  /\ m.label = conf.methods[i].label
                  /\ m.isBaseline = (conf.baseline = Some(m.name))
                  /\ IF MeasuredAs(bc, m.name) = {}
                     THEN Measurement(m) = no_data
                     ELSE Measurement(m) \in MeasuredAs(bc, m.name)

(* C15: every document a converter writes holds, for every configured      *)
(* group of its class, one method record per configured method            *)
(* definition, in configured order; a method with a measurement row        *)
(* carries that row's parsed values, a method without one carries absent   *)
(* mean, error, stddev and throughput and allocated 0; the group's         *)
(* baseline is the configured name and isBaseline is true exactly for the  *)
(* records of that name.  regenerate-data.py writes the same document into *)
(* both directories.                                                       *)
C15_GroupAssembly ==
  Converted("convert") \/ Converted("regenerate") =>
    \A i \in WrittenClasses :
      LET f == file_of(groups_config[i].class)
      IN /\ f \in DOMAIN latestDir
         /\ AssembledAs(latestDir[f], groups_config[i])
         /\ Converted("regenerate") =>
              f \in DOMAIN baselineDir /\ baselineDir[f] = latestDir[f]

\* two definitions of B, the configured baseline C among neither, after a
\* definition of A: A measured, B with no row
C15_Witness ==
  /\ Converted("convert")
  /\ outcome = "created"
  /\ \E i \in WrittenClasses :
       /\ Len(groups_config[i].comparisonGroups[1].methods) >= 2
       /\ \E j \in 1..Len(groups_config[i].comparisonGroups[1].methods) :
            LET m == latestDir[file_of(groups_config[i].class)].comparisonGroups[1].methods[j]
            IN /\ RowsOf(groups_config[i], m.name) = {}
               /\ Measurement(m) = no_data
       /\ \E j \in 1..Len(groups_config[i].comparisonGroups[1].methods) :
            LET m == latestDir[file_of(groups_config[i].class)].comparisonGroups[1].methods[j]
            IN /\ RowsOf(groups_config[i], m.name) # {}
               /\ m.mean_us # None
               /\ m.isBaseline

-----------------------------------------------------------------------------
(* Reading a report against the corpora, as sets of files *)

\* every file of the directory is a document with a class name and groups
WellFormed(directory) ==
  \A f \in DOMAIN directory : ~IsMalformed(directory[f]) /\ HasGroups(directory[f])

Empty(directory) == DOMAIN directory = {}

\* the report has one section per class and group of the data, in order
CoversEvery(data) ==
  /\ Len(html[1].classes) = Len(data)
  /\ \A ci \in 1..Len(data) :
       /\ html[1].classes[ci].class_name = data[ci].key
       /\ Len(html[1].classes[ci].groups) = Len(GroupsOf(data[ci].value))
       /\ \A gi \in 1..Len(GroupsOf(data[ci].value)) :
            html[1].classes[ci].groups[gi].id = GroupsOf(data[ci].value)[gi].id

(* C16: on well-formed corpora the regression command returns None and     *)
(* writes nothing when the latest corpus is empty, whatever the baseline   *)
(* corpus holds; when the latest corpus is not empty and the baseline      *)
(* corpus is, it writes a report with the no-baseline banner, a section    *)
(* for every current class and group, and no summary banner.               *)
(* The tables of such a report are made by html_data_table_public, whose   *)
(* compute_ratio raises on a mean of 0 (C3), so this fails.                *)
C16_MissingInputs ==
  command = "regression" /\ WellFormed(latestDir) /\ WellFormed(baselineDir) =>
    /\ Empty(latestDir) => outcome = "None" /\ html = None
    /\ ~Empty(latestDir) /\ Empty(baselineDir) =>
         /\ outcome = "out_path"
         /\ html # None
         /\ html[1].stale_banner
         /\ html[1].summary = <<>>
         /\ CoversEvery(LatestData)

\* the directories the last command loaded
Loaded ==
  IF command = "regression" THEN {baselineDir, latestDir}
  ELSE IF command = "public" THEN {baselineDir}
  ELSE {}

(* C17: when a corpus the command loads holds a malformed document (a file *)
(* that is not JSON, or a document without metadata.benchmarkClass or      *)
(* without comparisonGroups), the command aborts and no report is written  *)
(* from the remaining documents.                                           *)
(* load_data_files skips a file it cannot read and goes on, so this fails. *)
C17_MalformedIsFatal ==
  (\E directory \in Loaded : ~WellFormed(directory)) => outcome # "out_path" /\ html = None

\* the positions of the flagged methods of a group
Flagged(group) == {i \in 1..Len(group.methods) : group.methods[i].isBaseline}

FirstFlagged(group) == CHOOSE i \in Flagged(group) : \A j \in Flagged(group) : i <= j

(* C18: in a report, a current group none of whose methods is flagged      *)
(* isBaseline shows every within-group result as unknown; a group with     *)
(* several flagged methods shows every unflagged method against the mean   *)
(* of the first flagged one; a command run on well-formed corpora whose    *)
(* groups all have no or several flagged methods completes.                *)
(* Both tables take the reference mean from the method that               *)
(* group["baseline"] names, whatever the flags, so this fails.             *)
C18_ZeroOrSeveralFlagged ==
  /\ command \in {"public", "regression"} /\ ReportData # <<>>
       /\ (\A directory \in Loaded : WellFormed(directory))
       /\ (\A s \in Sections(ReportData) : Cardinality(Flagged(GroupAt(ReportData, s))) # 1)
       => outcome = "out_path"
  /\ command \in {"public", "regression"} /\ outcome = "out_path" =>
       \A s \in Sections(ReportData) :
         LET group == GroupAt(ReportData, s)
         IN /\ Flagged(group) = {} =>
                 \A i \in 1..Len(group.methods) :
                   \A row \in RowsNamed(s, group.methods[i].name) :
                     row.ratio_str = RatioStr(None, "-")
            /\ Cardinality(Flagged(group)) > 1 =>
                 \A i \in 1..Len(group.methods) :
                   i \notin Flagged(group) =>
                     \A row \in RowsNamed(s, group.methods[i].name) :
                       Within(row.ratio_str, row.ratio_class, group.methods[i].mean_us,
                              group.methods[FirstFlagged(group)].mean_us)

\* every order the files of a directory can be processed in
Orders(directory) ==
  {q \in [1..Cardinality(DOMAIN directory) -> DOMAIN directory] :
     \A i, j \in 1..Cardinality(DOMAIN directory) : i # j => q[i] # q[j]}

\* a loaded dict as a mapping, without the order of insertion
Mapping(result) ==
  [k \in {result[i].key : i \in 1..Len(result)} |-> DictGet(result, k)[1]]

(* C19: the mapping from class name to document that the loading of a      *)
(* directory gives is the same in whatever order the files are processed,  *)
(* also when several files hold the same benchmarkClass.                   *)
(* A later file replaces an earlier one of the same class, so this fails.  *)
C19_MergeIsCommutative ==
  \A directory \in Loaded :
    \A q \in Orders(directory) :
      Mapping(load_files(directory, q, <<>>)) = Mapping(load_data_files(directory))

\* the summary banners that say there is no regression and no improvement
NoChangeSummary == <<[class |-> "summary-pass", entries |-> <<>>]>>

(* C20: promote_baseline on a non-empty latest corpus leaves the baseline  *)
(* corpus holding exactly the files of the latest corpus, with the same    *)
(* contents, and the latest corpus as it was; a regression report made     *)
(* right after it lists no regression and no improvement; on an empty      *)
(* latest corpus it leaves the baseline corpus as it was.                  *)
(* Files of the baseline directory that latest does not have are kept, so  *)
(* this fails.                                                             *)
C20_PromoteReplaces ==
  [][ /\ command' = "baseline" =>
           /\ latestDir' = latestDir
           /\ Empty(latestDir) => baselineDir' = baselineDir
           /\ ~Empty(latestDir) => baselineDir' = latestDir
      /\ command = "baseline" /\ ~Empty(latestDir) /\ WellFormed(latestDir)
           /\ command' = "regression" =>
           /\ outcome' = "out_path"
           /\ html' # None
           /\ html'[1].summary = NoChangeSummary ]_vars

====
